---- MODULE Spec2Model ----
(***************************************************************************)
(* Model of the outbound call governor of the backend                      *)
(* (src/src/utils/openRouterApi.js), of the route handlers that reach the  *)
(* provider (src/src/routes/*.js) and of the client-side translateText     *)
(* retry loop (src/src/contexts/TranslationContext.jsx).                   *)
(*                                                                         *)
(* Time is counted in ticks of 1000 ms: every delay in the code is a       *)
(* multiple of 1000 ms (safety margin 1000, backoffs 16000 and 2000).      *)
(* The backend has a clock; of the browser's timers the model keeps the    *)
(* delay each one was set to, and lets them fire at any later step.        *)
(* JavaScript runs each piece of code between two awaits without           *)
(* interruption, so one action is one such piece.                          *)
(***************************************************************************)
EXTENDS Integers, Sequences, FiniteSets, TLC

(* ---------------------------- bounds ----------------------------------- *)
\* number of concurrent callers of the backend
NumCallers == 4
\* number of concurrent translateText calls in the browser
NumCalls == 1
\* last clock tick of the governor model
MaxTime == 4
\* rateLimiter.maxRequests as configured (the default is 50)
maxRequests == 2
\* rateLimiter.timeWindow in ticks (the default is 60 ticks)
timeWindow == 3

(* ------------------------ program constants ---------------------------- *)
\* the "+ 1000" of the wait computation, in ticks
safetyMargin == 1

\* "retries = 3", the default of translateText
DefaultRetries == 3
\* setTimeout(resolve, 16000) after a quota signal, in ticks
QuotaBackoff == 16
\* setTimeout(resolve, 2000) after any other error, in ticks
ErrorBackoff == 2

\* longest Origin header value, in symbols
MaxOriginLen == 4
\* longest allow-list entry, in symbols
MaxPatternLen == 2
\* most entries of config.cors.allowedOrigins
MaxEntries == 1

\* longest provider error message, in words
MaxWords == 2
\* serverless handler invocations
NumInvocations == 3
\* connectDb calls
NumDbCalls == 3
\* number of closeDb calls
NumCloses == 1
\* /prepare-rag requests
NumRagRequests == 2

Callers == 1..NumCallers
Calls == 1..NumCalls
Invocations == 1..NumInvocations
DbCalls == 1..NumDbCalls
Closes == 1..NumCloses
RagRequests == 1..NumRagRequests
NoTime == -1

\* entry points through which a caller reaches the provider
GovernedEntries == {"completion", "embeddings"}

VARIABLES
  now,          \* Date.now(), in ticks
  apiKey,       \* config.openRouter.apiKey is set
  requests,     \* rateLimiter.requests
  pc,           \* position of each caller
  entry,        \* the entry point each caller came through
  wakeAt,       \* due time of the caller's setTimeout
  obs,          \* history: what each caller saw at its check, and its admission
  posts,        \* history: HTTP POSTs issued to the provider
  translationCache, \* the text has a cached translation
  tpc,              \* position of each translateText call
  retries,          \* the retries argument of the running invocation
  budget,           \* history: the retries argument the call started with
  slots,            \* history: number of waitForSlot admissions of the call
  fetches,          \* history: number of fetches the call issued
  quotas,           \* history: number of quota outcomes the call received
  last,             \* history: the outcome of the call's latest fetch
  waited,           \* history: sum of the backoff delays the call awaited
  result,           \* what the call returned
  allowedOrigins,   \* config.cors.allowedOrigins
  loaded,           \* the config module has been evaluated
  entryPoint,       \* the entry point that received the request
  req,              \* the request: its Origin header and its method
  res,              \* the response: CORS headers, status, how it left the authorizer
  failure,          \* how the axios.post of a provider call failed
  thrown,           \* the error the provider call threw for it
  servicesInitialized, \* the flag of initOnce
  ipc,              \* position of each handler invocation
  entered,          \* history: number of times initializeServices was entered
  mounted,          \* history: number of app.use calls per late-mounted handler
  pool,             \* the module-level pool of db.js: null or a pool
  tested,           \* history: the pools whose connection test succeeded
  dpc,              \* position of each connectDb call
  connectionString, \* config.db.connectionString, once it has been read
  created,          \* history: number of pools created so far
  own,              \* history: the pool each connectDb call created
  cpc,              \* position of each closeDb call
  agentsReady,      \* the agents of agentsRoutes.js are constructed
  defaultAutoUpload, \* history: autoUpload as the ragPrep agent was constructed
  autoUpload,       \* agents.ragPrep.options.autoUpload
  rpc,              \* position of each /prepare-rag request
  originalAutoUpload, \* the local originalAutoUpload of each request
  uploadToDb,       \* history: req.body.uploadToDb ?? false of each request
  ranWith           \* history: the autoUpload value each prepareChapter read

gvars == <<now, apiKey, requests, pc, entry, wakeAt, obs, posts>>

tvars == <<translationCache, tpc, retries, budget, slots, fetches, quotas,
           last, waited, result>>

cvars == <<allowedOrigins, loaded, entryPoint, req, res>>

evars == <<failure, thrown>>

svars == <<servicesInitialized, ipc, entered, mounted>>

dvars == <<pool, tested, dpc, connectionString, created, own, cpc>>

rvars == <<agentsReady, defaultAutoUpload, autoUpload, rpc, originalAutoUpload,
           uploadToDb, ranWith>>

\* the variables of the provider errors, the service start-up, the database
\* pool and the agents routes
ovars == <<failure, thrown, servicesInitialized, ipc, entered, mounted,
           pool, tested, dpc, connectionString, created, own, cpc,
          agentsReady, defaultAutoUpload, autoUpload,
           rpc, originalAutoUpload, uploadToDb, ranWith>>

vars == <<now, apiKey, requests, pc, entry, wakeAt, obs, posts,
          translationCache, tpc, retries, budget, slots, fetches, quotas,
          last, waited, result,
          allowedOrigins, loaded, entryPoint, req, res,
          failure, thrown, servicesInitialized, ipc, entered, mounted,
          pool, tested, dpc, connectionString, created, own, cpc,
          agentsReady, defaultAutoUpload, autoUpload,
          rpc, originalAutoUpload, uploadToDb, ranWith>>

(* --------------------------- rateLimiter ------------------------------- *)
\* indices of the entries kept by  filter(time => now - time < timeWindow)
RECURSIVE KeptFrom(_, _, _)
KeptFrom(reqs, t, i) ==
  IF i > Len(reqs) THEN << >>
  ELSE IF t - reqs[i] < timeWindow
       THEN <<i>> \o KeptFrom(reqs, t, i + 1)
       ELSE KeptFrom(reqs, t, i + 1)

Prune(reqs, t) ==
  LET k == KeptFrom(reqs, t, 1) IN [j \in 1..Len(k) |-> reqs[k[j]]]

\* getRemainingRequests() evaluated on the list reqs at time t
Remaining(reqs, t) == maxRequests - Len(Prune(reqs, t))

\* variant: the comparison is off by one
UnderLimitOffByOne(reqs) == Len(reqs) < maxRequests - 1

UnderLimit(reqs) == Len(reqs) < maxRequests

\* variant: the wait is the age of the oldest entry, not what is left of its window
WaitTimeOfAge(t, oldestRequest) == (t - oldestRequest) + safetyMargin

WaitTime(t, oldestRequest) == timeWindow - (t - oldestRequest) + safetyMargin

\* setTimeout treats a negative delay as the smallest delay
TimerDelay(d) == IF d < 0 THEN 0 ELSE d

\* variant: the oldest entry is kept
ShiftNothing(s) == s

\* Array.prototype.shift: removes the first element, no effect on []
Shift(s) == IF s = << >> THEN s ELSE Tail(s)

NoObs == [checkAt |-> NoTime, count |-> NoTime, oldest |-> NoTime,
          admitAt |-> NoTime]

\* callers are numbered in their order of arrival
Arrived(c) == IF c = 1 THEN TRUE ELSE pc[c - 1] # "idle"

\* req.headers.origin of a request without Origin header (falsy)
Absent == << >>

\* the value of a header that is not set
NoValue == << >>

\* the Access-Control-* headers of a response: the value of Allow-Origin,
\* and for each other header whether it is set
NoHeaders ==
  [allowOrigin |-> NoValue, credentials |-> FALSE, methods |-> FALSE,
   allowHeaders |-> FALSE, exposeHeaders |-> FALSE, maxAge |-> FALSE]

\* how a request leaves an authorizer:
\*   next   next() was called, the request goes on to what is mounted after
\*   ended  res.status(..).end() by the authorizer
\*   error  next(err) or a throw: Express skips to the error handling
Response(h, st, out) == [headers |-> h, status |-> st, outcome |-> out]

NoReq == [origin |-> Absent, method |-> "none"]

NoRes == Response(NoHeaders, 0, "none")

\* no provider call has failed yet
\* the value null of the module variable pool
NoPool == 0

NoFailure == [fn |-> "none", kind |-> "none", status |-> 0, message |-> << >>]

NoError == [name |-> "none", status |-> 0, detail |-> << >>]

Init ==
  /\ now = 0
  /\ apiKey \in BOOLEAN
  /\ requests = << >>
  /\ pc = [c \in Callers |-> "idle"]
  /\ entry = [c \in Callers |-> "none"]
  /\ wakeAt = [c \in Callers |-> NoTime]
  /\ obs = [c \in Callers |-> NoObs]
  /\ posts = {}
  /\ translationCache = FALSE
  /\ tpc = [k \in Calls |-> "idle"]
  /\ retries = [k \in Calls |-> 0]
  /\ budget = [k \in Calls |-> NoTime]
  /\ slots = [k \in Calls |-> 0]
  /\ fetches = [k \in Calls |-> 0]
  /\ quotas = [k \in Calls |-> 0]
  /\ last = [k \in Calls |-> "none"]
  /\ waited = [k \in Calls |-> 0]
  /\ result = [k \in Calls |-> "none"]
  /\ allowedOrigins = {}
  /\ loaded = FALSE
  /\ entryPoint = "none"
  /\ req = NoReq
  /\ res = NoRes
  /\ failure = NoFailure
  /\ thrown = NoError
  /\ servicesInitialized = FALSE
  /\ ipc = [i \in Invocations |-> "idle"]
  /\ entered = 0
  /\ mounted = [auth |-> 0, notFound |-> 0, errorHandler |-> 0]
  /\ pool = NoPool
  /\ tested = {}
  /\ dpc = [d \in DbCalls |-> "idle"]
  /\ connectionString = "unread"
  /\ created = 0
  /\ own = [d \in DbCalls |-> NoPool]
  /\ cpc = [k \in Closes |-> "idle"]
  /\ agentsReady = FALSE
  /\ defaultAutoUpload = FALSE
  /\ autoUpload = FALSE
  /\ rpc = [r \in RagRequests |-> "idle"]
  /\ originalAutoUpload = [r \in RagRequests |-> FALSE]
  /\ uploadToDb = [r \in RagRequests |-> FALSE]
  /\ ranWith = [r \in RagRequests |-> {}]

\* the clock advances
Tick ==
  /\ now < MaxTime
  /\ now' = now + 1
  /\ UNCHANGED <<apiKey, requests, pc, entry, wakeAt, obs, posts>>
  /\ UNCHANGED <<tvars, cvars, ovars>>

\* the synchronous part of rateLimiter.checkLimit, run by caller c:
\* prune, then either record now or schedule the wait
checkLimit(c) ==
  LET pruned == Prune(requests, now)
      seen == [checkAt |-> now, count |-> Len(pruned),
               oldest |-> IF pruned = << >> THEN NoTime ELSE pruned[1],
               admitAt |-> NoTime]
  IN IF UnderLimit(pruned)
     THEN /\ requests' = Append(pruned, now)
          /\ pc' = [pc EXCEPT ![c] = "admitted"]
          /\ obs' = [obs EXCEPT ![c] = [seen EXCEPT !.admitAt = now]]
          /\ UNCHANGED wakeAt
     ELSE /\ requests' = pruned
          /\ pc' = [pc EXCEPT ![c] = "waiting"]
          /\ wakeAt' = [wakeAt EXCEPT ![c] =
                          now + TimerDelay(WaitTime(now, pruned[1]))]
          /\ obs' = [obs EXCEPT ![c] = seen]

\* variant: a caller may enter only while no other caller is suspended
CallOpenRouterSerialized(c) ==
  /\ \A d \in Callers : pc[d] # "waiting"
  /\ pc[c] = "idle"
  /\ Arrived(c)
  /\ \E e \in GovernedEntries, model \in BOOLEAN :
       /\ (e = "completion" => model)
       /\ entry' = [entry EXCEPT ![c] = e]
       /\ IF ~apiKey \/ (e = "embeddings" /\ ~model)
          THEN /\ pc' = [pc EXCEPT ![c] = "threw"]
               /\ UNCHANGED <<requests, wakeAt, obs>>
          ELSE checkLimit(c)
  /\ UNCHANGED <<now, apiKey, posts>>
  /\ UNCHANGED <<tvars, cvars, ovars>>

\* variant: embeddings are admitted without being recorded
CallOpenRouterEmbeddingsApart(c) ==
  /\ pc[c] = "idle"
  /\ Arrived(c)
  /\ \E e \in GovernedEntries, model \in BOOLEAN :
       /\ (e = "completion" => model)
       /\ entry' = [entry EXCEPT ![c] = e]
       /\ IF ~apiKey \/ (e = "embeddings" /\ ~model)
          THEN /\ pc' = [pc EXCEPT ![c] = "threw"]
               /\ UNCHANGED <<requests, wakeAt, obs>>
          ELSE IF e = "embeddings"
          THEN /\ pc' = [pc EXCEPT ![c] = "admitted"]
               /\ obs' = [obs EXCEPT ![c] = [checkAt |-> now, count |-> 0,
                                             oldest |-> NoTime, admitAt |-> now]]
               /\ UNCHANGED <<requests, wakeAt>>
          ELSE checkLimit(c)
  /\ UNCHANGED <<now, apiKey, posts>>
  /\ UNCHANGED <<tvars, cvars, ovars>>

\* variant: the call is recorded before the configuration is tested
CallOpenRouterRecordsFirst(c) ==
  /\ pc[c] = "idle"
  /\ Arrived(c)
  /\ \E e \in GovernedEntries, model \in BOOLEAN :
       /\ (e = "completion" => model)
       /\ entry' = [entry EXCEPT ![c] = e]
       /\ IF ~apiKey \/ (e = "embeddings" /\ ~model)
          THEN /\ pc' = [pc EXCEPT ![c] = "threw"]
               /\ requests' = Append(Prune(requests, now), now)
               /\ UNCHANGED <<wakeAt, obs>>
          ELSE checkLimit(c)
  /\ UNCHANGED <<now, apiKey, posts>>
  /\ UNCHANGED <<tvars, cvars, ovars>>

\* callOpenRouterCompletion / callOpenRouterEmbeddings up to their first
\* await: the key test, for embeddings the model test (the model argument
\* of a completion is not tested), then the synchronous part of checkLimit
CallOpenRouter(c) ==
  /\ pc[c] = "idle"
  /\ Arrived(c)
  /\ \E e \in GovernedEntries, model \in BOOLEAN :
       /\ (e = "completion" => model)
       /\ entry' = [entry EXCEPT ![c] = e]
       /\ IF ~apiKey \/ (e = "embeddings" /\ ~model)
          THEN /\ pc' = [pc EXCEPT ![c] = "threw"]
               /\ UNCHANGED <<requests, wakeAt, obs>>
          ELSE checkLimit(c)
  /\ UNCHANGED <<now, apiKey, posts>>
  /\ UNCHANGED <<tvars, cvars, ovars>>

\* variant: a woken caller runs the check again and may wait again
TimerFireRechecks(c) ==
  /\ pc[c] = "waiting"
  /\ now >= wakeAt[c]
  /\ \A d \in Callers : pc[d] # "admitted"
  /\ checkLimit(c)
  /\ UNCHANGED <<now, apiKey, entry, posts>>
  /\ UNCHANGED <<tvars, cvars, ovars>>

\* the timer of a delayed caller fires: the rest of checkLimit
TimerFire(c) ==
  /\ pc[c] = "waiting"
  /\ now >= wakeAt[c]
  \* promise continuations run before the next timer callback
  /\ \A d \in Callers : pc[d] # "admitted"
  /\ requests' = Append(Shift(requests), now)
  /\ pc' = [pc EXCEPT ![c] = "admitted"]
  /\ obs' = [obs EXCEPT ![c].admitAt = now]
  /\ UNCHANGED <<now, apiKey, entry, wakeAt, posts>>
  /\ UNCHANGED <<tvars, cvars, ovars>>

Endpoint(e) == IF e = "embeddings" THEN "/embeddings" ELSE "/chat/completions"

\* an axios.post issued by caller c; governed tells whether a checkLimit
\* admission of c preceded it
Post(c, endpoint) ==
  [by |-> c, endpoint |-> endpoint, governed |-> obs[c].admitAt # NoTime]

\* after "await rateLimiter.checkLimit()": the log line that calls
\* getRemainingRequests, then axios.post
IssueCall(c) ==
  /\ pc[c] = "admitted"
  /\ requests' = Prune(requests, now)
  /\ posts' = posts \cup {Post(c, Endpoint(entry[c]))}
  /\ pc' = [pc EXCEPT ![c] = "posted"]
  /\ UNCHANGED <<now, apiKey, entry, wakeAt, obs>>
  /\ UNCHANGED <<tvars, cvars, ovars>>

(* --------------------------- route handlers ---------------------------- *)
\* POST /gemini/translate and POST /personalize: validation, key test,
\* then axios.post to /chat/completions
KeyCheckedRoute(c, route) ==
  /\ pc[c] = "idle"
  /\ Arrived(c)
  /\ entry' = [entry EXCEPT ![c] = route]
  /\ \E valid \in BOOLEAN :
       IF ~valid \/ ~apiKey
       THEN /\ pc' = [pc EXCEPT ![c] = "rejected"]
            /\ UNCHANGED posts
       ELSE /\ pc' = [pc EXCEPT ![c] = "posted"]
            /\ posts' = posts \cup {Post(c, "/chat/completions")}
  /\ UNCHANGED <<now, apiKey, requests, wakeAt, obs>>
  /\ UNCHANGED <<tvars, cvars, ovars>>

GeminiTranslateRoute(c) == KeyCheckedRoute(c, "geminiTranslate")

PersonalizeRoute(c) == KeyCheckedRoute(c, "personalize")

\* POST /translate: validation, then axios.post (no key test)
TranslateRoute(c) ==
  /\ pc[c] = "idle"
  /\ Arrived(c)
  /\ entry' = [entry EXCEPT ![c] = "translate"]
  /\ \E valid \in BOOLEAN :
       IF ~valid
       THEN /\ pc' = [pc EXCEPT ![c] = "rejected"]
            /\ UNCHANGED posts
       ELSE /\ pc' = [pc EXCEPT ![c] = "posted"]
            /\ posts' = posts \cup {Post(c, "/chat/completions")}
  /\ UNCHANGED <<now, apiKey, requests, wakeAt, obs>>
  /\ UNCHANGED <<tvars, cvars, ovars>>

\* POST /chat of routes/chat.js: validation, key test, then generateEmbedding
\* (axios.post to /embeddings) when a Qdrant client exists, else straight to
\* the completion
ChatRoute(c) ==
  /\ pc[c] = "idle"
  /\ Arrived(c)
  /\ entry' = [entry EXCEPT ![c] = "chat"]
  /\ \E valid \in BOOLEAN, qdrantClient \in BOOLEAN :
       IF ~valid \/ ~apiKey
       THEN /\ pc' = [pc EXCEPT ![c] = "rejected"]
            /\ UNCHANGED posts
       ELSE IF qdrantClient
       THEN /\ pc' = [pc EXCEPT ![c] = "embedding"]
            /\ posts' = posts \cup {Post(c, "/embeddings")}
       ELSE /\ pc' = [pc EXCEPT ![c] = "posted"]
            /\ posts' = posts \cup {Post(c, "/chat/completions")}
  /\ UNCHANGED <<now, apiKey, requests, wakeAt, obs>>
  /\ UNCHANGED <<tvars, cvars, ovars>>

\* POST /chat after the embedding call settled (a failure is caught and the
\* handler goes on without context): axios.post to /chat/completions
ChatRouteCompletion(c) ==
  /\ pc[c] = "embedding"
  /\ posts' = posts \cup {Post(c, "/chat/completions")}
  /\ pc' = [pc EXCEPT ![c] = "posted"]
  /\ UNCHANGED <<now, apiKey, requests, entry, wakeAt, obs>>
  /\ UNCHANGED <<tvars, cvars, ovars>>

(* ---------------------------- translateText --------------------------- *)
\* what a fetch of the translate endpoint can come to:
\*   ok       2xx with success and translatedText
\*   okEmpty  2xx without a translation
\*   quota    not ok, data.error includes 'Quota exceeded'
\*   http400  not ok with status 400, any other error text
\*   network  fetch or response.json() rejects
Outcomes == {"ok", "okEmpty", "quota", "http400", "network"}

\* calls are numbered in their order of arrival
Called(k) == IF k = 1 THEN TRUE ELSE tpc[k - 1] # "idle"

\* translateText(text, targetLang, r) up to its first await: the empty-text
\* test, the cache lookup in the closure's translationCache (which may be
\* older than the latest render), then waitForSlot
TranslateText(k) ==
  /\ tpc[k] = "idle"
  /\ Called(k)
  /\ \E r \in 0..DefaultRetries, emptyText \in BOOLEAN,
        cached \in (IF translationCache THEN BOOLEAN ELSE {FALSE}) :
       /\ budget' = [budget EXCEPT ![k] = r]
       /\ retries' = [retries EXCEPT ![k] = r]
       /\ IF emptyText
          THEN /\ tpc' = [tpc EXCEPT ![k] = "returned"]
               /\ result' = [result EXCEPT ![k] = "text"]
          ELSE IF cached
          THEN /\ tpc' = [tpc EXCEPT ![k] = "returned"]
               /\ result' = [result EXCEPT ![k] = "cached"]
          ELSE /\ tpc' = [tpc EXCEPT ![k] = "slot"]
               /\ UNCHANGED result
  /\ UNCHANGED <<translationCache, slots, fetches, quotas, last, waited>>
  /\ UNCHANGED <<gvars, cvars, ovars>>

\* openRouterRateLimiter.waitForSlot() resolves, and fetch is issued
SlotGranted(k) ==
  /\ tpc[k] = "slot"
  /\ slots' = [slots EXCEPT ![k] = @ + 1]
  /\ fetches' = [fetches EXCEPT ![k] = @ + 1]
  /\ tpc' = [tpc EXCEPT ![k] = "fetching"]
  /\ UNCHANGED <<translationCache, retries, budget, quotas, last, waited,
                 result>>
  /\ UNCHANGED <<gvars, cvars, ovars>>

\* variant: one delay for every failure
BackoffFlat(o) == ErrorBackoff

\* the delay of the setTimeout awaited after outcome o
Backoff(o) == IF o = "quota" THEN QuotaBackoff ELSE ErrorBackoff

\* an outcome after which the code retries while retries > 0: the quota
\* branch, and every exception through the catch block
Retried(o) == o \in {"quota", "http400", "network"}

\* the fetch settles with outcome o: the rest of the try block and the
\* catch block, up to the return or the await of the backoff timer
Respond(k, o) ==
  /\ tpc[k] = "fetching"
  /\ last' = [last EXCEPT ![k] = o]
  /\ quotas' = [quotas EXCEPT ![k] = IF o = "quota" THEN @ + 1 ELSE @]
  /\ IF Retried(o) /\ retries[k] > 0
     THEN /\ tpc' = [tpc EXCEPT ![k] = "backoff"]
          /\ waited' = [waited EXCEPT ![k] = @ + Backoff(o)]
          /\ UNCHANGED <<result, translationCache>>
     ELSE /\ tpc' = [tpc EXCEPT ![k] = "returned"]
          /\ result' = [result EXCEPT ![k] =
                          IF o = "ok" THEN "translated" ELSE "text"]
          /\ translationCache' = (translationCache \/ o = "ok")
          /\ UNCHANGED waited
  /\ UNCHANGED <<retries, budget, slots, fetches>>
  /\ UNCHANGED <<gvars, cvars, ovars>>

\* variant: the recursive call is given the same retries
BackoffFireSameBudget(k) ==
  /\ tpc[k] = "backoff"
  /\ retries' = [retries EXCEPT ![k] = @]
  /\ tpc' = [tpc EXCEPT ![k] = "slot"]
  /\ UNCHANGED <<translationCache, budget, slots, fetches, quotas, last,
                 waited, result>>
  /\ UNCHANGED <<gvars, cvars, ovars>>

\* the backoff timer fires: translateText(text, targetLang, retries - 1),
\* which reaches waitForSlot again (the text is not empty and the closure's
\* cache has no entry for it)
BackoffFire(k) ==
  /\ tpc[k] = "backoff"
  /\ retries' = [retries EXCEPT ![k] = @ - 1]
  /\ tpc' = [tpc EXCEPT ![k] = "slot"]
  /\ UNCHANGED <<translationCache, budget, slots, fetches, quotas, last,
                 waited, result>>
  /\ UNCHANGED <<gvars, cvars, ovars>>

(* ------------------------------- CORS ---------------------------------- *)
\* Strings are sequences of symbols: "a" and "A" are two different
\* characters other than the dot and the wildcard marker.
OriginChars == {"a", "A", "."}

PatternChars == {"a", ".", "*"}

Strings(chars, n) == UNION {[1..m -> chars] : m \in 1..n}

\* the values of a present Origin header
Origins == Strings(OriginChars, MaxOriginLen)

\* String(undefined), what RegExp.prototype.test makes of an absent origin
Undefined == <<"u", "n", "d", "e", "f", "i", "n", "e", "d">>

Patterns == Strings(PatternChars, MaxPatternLen)

\* the arrays process.env.CORS_ALLOWED_ORIGINS.split(',') can give, as sets
\* (Array.prototype.some does not depend on the order)
AllowLists ==
  {{l[i] : i \in 1..Len(l)} :
     l \in UNION {[1..m -> Patterns] : m \in 1..MaxEntries}}

Methods == {"GET", "OPTIONS"}

\* the list of the serverless handler, in the shape of its entries:
\*   https://ai-native-book-tf39.vercel.app   (also matches the regex)
\*   https://Ai-Native-Book.vercel.app
\*   http://localhost:3000
handlerAllowedOrigins ==
  {<<"a", "A", ".", "a">>, <<"A", ".", "a">>, <<"A">>}

\* /^https:\/\/ai-native-book-[^.]*\.vercel\.app$/ written as a pattern:
\* a literal, the wildcard, a dot, a literal
handlerPattern == <<"a", "*", ".", "a">>

\* the literal list of the configuration module, in the shape of its
\* entries: the entries of the handler's list, the wildcard entry
\*   https://ai-native-book-*.vercel.app
\* and one entry the handler's list does not have
\*   https://physical-ai-humanoid-robotics-book-eight-kappa.vercel.app
configAllowedOrigins ==
  handlerAllowedOrigins \cup {handlerPattern, <<"A", ".", "A">>}

\* String.prototype.includes for one character
Includes(str, ch) == \E i \in 1..Len(str) : str[i] = ch

\* RegExp('^' + p.replace(/\./g, '\\.').replace(/\*/g, '[^.]*') + '$').test(str):
\* the dot is literal, the wildcard is any run of non-dot characters,
\* the empty run included
RECURSIVE RegexEscaped(_, _)
RegexEscaped(p, str) ==
  IF p = << >> THEN str = << >>
  ELSE IF Head(p) = "*"
       THEN IF RegexEscaped(Tail(p), str) THEN TRUE
            ELSE IF str = << >> THEN FALSE
            ELSE IF Head(str) = "." THEN FALSE
            ELSE RegexEscaped(p, Tail(str))
       ELSE IF str = << >> THEN FALSE
       ELSE IF Head(str) = Head(p) THEN RegexEscaped(Tail(p), Tail(str))
       ELSE FALSE

\* RegExp('^' + p.replace(/\*/g, '.*') + '$').test(str): the dot of the
\* pattern stays a regex dot (any one character), the wildcard is any run
\* of characters, the empty run included
RECURSIVE RegexPattern(_, _)
RegexPattern(p, str) ==
  IF p = << >> THEN str = << >>
  ELSE IF Head(p) = "*"
       THEN IF RegexPattern(Tail(p), str) THEN TRUE
            ELSE IF str = << >> THEN FALSE
            ELSE RegexPattern(p, Tail(str))
       ELSE IF str = << >> THEN FALSE
       ELSE IF Head(p) = "." THEN RegexPattern(Tail(p), Tail(str))
       ELSE IF Head(str) = Head(p) THEN RegexPattern(Tail(p), Tail(str))
       ELSE FALSE

\* variant: the comparison ignores case
isOriginAllowedIgnoringCase(origin) ==
  IF origin = Absent THEN FALSE
  ELSE \E allowedOrigin \in allowedOrigins :
         IF LET lower(str) == [i \in 1..Len(str) |->
                                IF str[i] = "A" THEN "a" ELSE str[i]]
            IN lower(allowedOrigin) = lower(origin)
         THEN TRUE
         ELSE IF Includes(allowedOrigin, "*")
              THEN RegexEscaped(allowedOrigin, origin)
              ELSE FALSE

\* isOriginAllowed of the CORS configuration module
isOriginAllowed(origin) ==
  IF origin = Absent THEN FALSE
  ELSE \E allowedOrigin \in allowedOrigins :
         IF allowedOrigin = origin THEN TRUE
         ELSE IF Includes(allowedOrigin, "*")
              THEN RegexEscaped(allowedOrigin, origin)
              ELSE FALSE

\* isAllowed of the standalone corsMiddleware: no test for an absent
\* origin, which === matches no entry and which regex.test reads as the
\* string 'undefined'
standaloneIsAllowed(origin) ==
  \E allowedOrigin \in allowedOrigins :
    IF origin # Absent /\ allowedOrigin = origin THEN TRUE
    ELSE IF Includes(allowedOrigin, "*")
         THEN RegexPattern(allowedOrigin,
                           IF origin = Absent THEN Undefined ELSE origin)
         ELSE FALSE

\* isAllowed of the serverless handler
handlerIsAllowed(origin) ==
  IF origin = Absent THEN FALSE
  ELSE IF origin \in handlerAllowedOrigins THEN TRUE
  ELSE RegexEscaped(handlerPattern, origin)

\* the value '*' of Access-Control-Allow-Origin
Star == <<"*">>

\* the six res.setHeader calls of an authorizer that allows the origin
GrantHeaders(origin) ==
  [allowOrigin |-> origin, credentials |-> TRUE, methods |-> TRUE,
   allowHeaders |-> TRUE, exposeHeaders |-> TRUE, maxAge |-> TRUE]

\* setCorsHeaders(req, res) on a response whose headers are h
setCorsHeaders(origin, h) ==
  IF origin # Absent /\ isOriginAllowed(origin) THEN GrantHeaders(origin) ELSE h

\* corsMiddleware of the CORS configuration module
corsMiddleware(origin, method, h) ==
  IF method = "OPTIONS"
  THEN Response(setCorsHeaders(origin, h), 204, "ended")
  ELSE Response(setCorsHeaders(origin, h), 0, "next")

\* corsOptions.origin: TRUE for callback(null, true), FALSE for
\* callback(new Error(..))
corsOptionsOrigin(origin) ==
  IF origin = Absent THEN TRUE ELSE isOriginAllowed(origin)

\* the options objects handed to the cors package; origin is '*', the
\* corsOptions.origin function ("callback") or the allow-list ("array")
corsOptions ==
  [origin |-> "callback", credentials |-> TRUE, preflight |-> TRUE,
   exposedHeaders |-> TRUE]

originArrayOptions ==
  [origin |-> "array", credentials |-> TRUE, preflight |-> TRUE,
   exposedHeaders |-> TRUE]

simpleOptions ==
  [origin |-> "*", credentials |-> TRUE, preflight |-> FALSE,
   exposedHeaders |-> FALSE]

\* the middleware cors(options) of the cors package on a response whose
\* headers are h.  An origin function that calls back with an error gives
\* next(err).  Otherwise Access-Control-Allow-Origin is '*' for origin '*',
\* and else the request's origin when the function said true or the array
\* holds that very string, and not set when there is nothing to echo;
\* Allow-Credentials and Expose-Headers are written as configured, whatever
\* the origin; a preflight gets Allow-Methods, the configured Allow-Headers
\* and Max-Age and ends with optionsSuccessStatus (204), any other method
\* goes on with next().
cors(options, origin, method, h) ==
  IF options.origin = "callback" /\ ~corsOptionsOrigin(origin)
  THEN Response(h, 500, "error")
  ELSE LET echo == IF options.origin = "*" THEN Star
                   ELSE IF options.origin = "callback" THEN origin
                   ELSE IF origin \in allowedOrigins THEN origin
                   ELSE NoValue
           h1 == [h EXCEPT
                    !.allowOrigin = IF echo = NoValue THEN @ ELSE echo,
                    !.credentials = (@ \/ options.credentials),
                    !.exposeHeaders = (@ \/ options.exposedHeaders)]
       IN IF method = "OPTIONS"
          THEN Response([h1 EXCEPT !.methods = TRUE,
                                   !.allowHeaders = (@ \/ options.preflight),
                                   !.maxAge = (@ \/ options.preflight)],
                        204, "ended")
          ELSE Response(h1, 0, "next")

\* the Express app: app.use(cors(corsOptions)); app.use(corsMiddleware);
\* then the body parser and the routes
app(origin, method, h) ==
  LET r == cors(corsOptions, origin, method, h)
  IN IF r.outcome = "next" THEN corsMiddleware(origin, method, r.headers)
     ELSE r

\* the config module is evaluated: the allow-list is the literal list or
\* the one given in the environment, taken as it is given, nothing is
\* validated
LoadConfig ==
  /\ ~loaded
  /\ \E list \in AllowLists \cup {configAllowedOrigins} :
       allowedOrigins' = list
  /\ loaded' = TRUE
  /\ UNCHANGED <<entryPoint, req, res>>
  /\ UNCHANGED <<gvars, tvars, ovars>>

\* the request, with or without Origin header, is received by entry point
\* e and answered with response r
Serve(e, origin, method, r) ==
  /\ entryPoint' = e
  /\ req' = [origin |-> origin, method |-> method]
  /\ res' = r
  /\ UNCHANGED <<allowedOrigins, loaded>>
  /\ UNCHANGED <<gvars, tvars, ovars>>

\* the serverless handler: its own origin test and headers, the preflight
\* answer, then initOnce and app(req, res)
Handler ==
  /\ loaded
  /\ entryPoint = "none"
  /\ \E origin \in Origins \cup {Absent}, method \in Methods :
       LET h == IF handlerIsAllowed(origin) THEN GrantHeaders(origin)
                ELSE NoHeaders
       IN Serve("handler", origin, method,
                IF method = "OPTIONS" THEN Response(h, 204, "ended")
                ELSE app(origin, method, h))

\* the Express app listening by itself (local development)
App ==
  /\ loaded
  /\ entryPoint = "none"
  /\ \E origin \in Origins \cup {Absent}, method \in Methods :
       Serve("app", origin, method, app(origin, method, NoHeaders))

\* the Express app of the copy that hands the allow-list to cors as a plain
\* array
AppOriginArray ==
  /\ loaded
  /\ entryPoint = "none"
  /\ \E origin \in Origins \cup {Absent}, method \in Methods :
       Serve("originArray", origin, method,
             cors(originArrayOptions, origin, method, NoHeaders))

\* the standalone corsMiddleware; res.setHeader throws for the undefined
\* origin of a request that has none
StandaloneCorsMiddleware ==
  /\ loaded
  /\ entryPoint = "none"
  /\ \E origin \in Origins \cup {Absent}, method \in Methods :
       Serve("standalone", origin, method,
             IF standaloneIsAllowed(origin) /\ origin = Absent
             THEN Response(NoHeaders, 500, "error")
             ELSE LET h == IF standaloneIsAllowed(origin)
                           THEN GrantHeaders(origin) ELSE NoHeaders
                  IN IF method = "OPTIONS" THEN Response(h, 200, "ended")
                     ELSE Response(h, 0, "next"))

\* simple.js: app.use(cors({origin: '*', credentials: true})), no config
Simple ==
  /\ entryPoint = "none"
  /\ \E origin \in Origins \cup {Absent}, method \in Methods :
       Serve("simple", origin, method,
             cors(simpleOptions, origin, method, NoHeaders))

(* --------------------------- provider errors --------------------------- *)
\* A provider error message is a sequence of words.
Words == {"quota", "Quota", "rate", "limit", "error"}

\* error.response.data?.error?.message: undefined, or a message
Messages == {<< >>} \cup Strings(Words, MaxWords)

\* HTTP statuses of provider responses that make axios reject
ProviderStatuses == {400, 429, 500, 503}

\* the ways the try block of a provider call fails:
\*   response  axios rejects with error.response (a non-2xx answer)
\*   request   axios rejects with error.request only (no answer received)
\*   setup     axios rejects with neither (the request was never sent)
\*   format    a 2xx answer without the expected field: the throw of the
\*             try block itself
Failures(fn) ==
  [fn : {fn}, kind : {"response"}, status : ProviderStatuses,
   message : Messages]
  \cup [fn : {fn}, kind : {"request", "setup"}, status : {0},
        message : {<<"error">>}]
  \cup [fn : {fn}, kind : {"format"}, status : {200}, message : {<< >>}]

\* String.prototype.toLowerCase
toLowerCase(msg) ==
  [i \in 1..Len(msg) |-> IF msg[i] = "Quota" THEN "quota" ELSE msg[i]]

\* msg.includes('quota') || msg.includes('rate limit')
includesQuotaOrRateLimit(msg) ==
  IF \E i \in 1..Len(msg) : msg[i] = "quota" THEN TRUE
  ELSE \E i \in 1..(Len(msg) - 1) : msg[i] = "rate" /\ msg[i + 1] = "limit"

\* 'Unknown API error'
UnknownApiError == <<"Unknown", "API", "error">>

\* the name of the API in the messages of each function
ApiName(fn) ==
  IF fn = "embeddings" THEN <<"OpenRouter", "Embedding", "API">>
  ELSE <<"OpenRouter", "API">>

\* an Error without status property
NoStatus == 0

\* the catch block of callOpenRouterCompletion / callOpenRouterEmbeddings
\* for failure f: the error it throws
CatchBlock(f) ==
  IF f.kind = "response"
  THEN LET errorMessage == IF f.message = << >> THEN UnknownApiError
                           ELSE f.message
       IN IF includesQuotaOrRateLimit(toLowerCase(errorMessage))
          THEN [name |-> "quotaError", status |-> 429,
                detail |-> <<"OpenRouter", "API">>
                             \o (IF f.fn = "embeddings" THEN <<"embedding">>
                                 ELSE << >>)
                             \o <<"rate", "limit", "reached">>]
          ELSE [name |-> "apiError",
                status |-> IF f.status = 0 THEN 500 ELSE f.status,
                detail |-> ApiName(f.fn) \o <<"error:">> \o errorMessage]
  ELSE IF f.kind = "request"
  THEN [name |-> "noResponseError", status |-> 503,
        detail |-> <<"No", "response", "from">> \o ApiName(f.fn)]
  ELSE [name |-> "Error", status |-> NoStatus,
        detail |-> <<"Failed", "to", "call">> \o ApiName(f.fn)
                     \o (IF f.kind = "format"
                         THEN <<"Unexpected", "response", "format">>
                         ELSE f.message)]

\* the provider call of callOpenRouterCompletion fails
CompletionFails ==
  /\ failure = NoFailure
  /\ \E f \in Failures("completion") :
       /\ failure' = f
       /\ thrown' = CatchBlock(f)
  /\ UNCHANGED <<gvars, tvars, cvars, svars, dvars, rvars>>

\* the provider call of callOpenRouterEmbeddings fails
EmbeddingsFails ==
  /\ failure = NoFailure
  /\ \E f \in Failures("embeddings") :
       /\ failure' = f
       /\ thrown' = CatchBlock(f)
  /\ UNCHANGED <<gvars, tvars, cvars, svars, dvars, rvars>>

(* ------------------------ service initialisation ----------------------- *)
\* Position of an invocation of the serverless handler:
\*   idle       not yet invoked
\*   connectDb  inside initializeServices, at await connectDb()
\*   qdrant     inside initializeServices, at await initializeQdrantClient()
\*   app        initOnce returned, the request is handed to app
\*   failed     initializeServices threw, the handler answered 500

\* handler is invoked and calls initOnce: with the flag set it goes on to
\* app, otherwise it enters initializeServices, which runs up to its first
\* await
InitOnce(i) ==
  /\ ipc[i] = "idle"
  /\ IF servicesInitialized
     THEN /\ ipc' = [ipc EXCEPT ![i] = "app"]
          /\ UNCHANGED entered
     ELSE /\ ipc' = [ipc EXCEPT ![i] = "connectDb"]
          /\ entered' = entered + 1
  /\ UNCHANGED <<servicesInitialized, mounted>>
  /\ UNCHANGED <<gvars, tvars, cvars, evars, dvars, rvars>>

\* await connectDb() settles: with a pool the auth router is mounted and
\* initializeServices goes on to its second await, otherwise it throws
ConnectDbSettles(i) ==
  /\ ipc[i] = "connectDb"
  /\ \E dbPool \in BOOLEAN :
       IF dbPool
       THEN /\ mounted' = [mounted EXCEPT !.auth = @ + 1]
            /\ ipc' = [ipc EXCEPT ![i] = "qdrant"]
       ELSE /\ ipc' = [ipc EXCEPT ![i] = "failed"]
            /\ UNCHANGED mounted
  /\ UNCHANGED <<servicesInitialized, entered>>
  /\ UNCHANGED <<gvars, tvars, cvars, evars, dvars, rvars>>

\* await initializeQdrantClient() settles: on success the catch-all route
\* and the error handler are mounted, initializeServices returns and
\* initOnce sets the flag; otherwise initializeServices throws
QdrantSettles(i) ==
  /\ ipc[i] = "qdrant"
  /\ \E connected \in BOOLEAN :
       IF connected
       THEN /\ mounted' = [mounted EXCEPT !.notFound = @ + 1,
                                          !.errorHandler = @ + 1]
            /\ servicesInitialized' = TRUE
            /\ ipc' = [ipc EXCEPT ![i] = "app"]
       ELSE /\ ipc' = [ipc EXCEPT ![i] = "failed"]
            /\ UNCHANGED <<mounted, servicesInitialized>>
  /\ UNCHANGED entered
  /\ UNCHANGED <<gvars, tvars, cvars, evars, dvars, rvars>>

(* ------------------------------ connectDb ------------------------------ *)
\* Position of a call of connectDb:
\*   idle        not yet called
\*   connecting  at await pool.connect()
\*   querying    at await client.query('SELECT version()')
\*   resolved    returned the pool
\*   rejected    threw
\* Position of a call of closeDb: idle, ending (at await pool.end()), done,
\* failed.

\* calls are numbered in their order of arrival
Started(d) == IF d = 1 THEN TRUE ELSE dpc[d - 1] # "idle"

\* connectDb up to its first await or its return: the cached pool is
\* returned as it is; otherwise the connection string is read from the
\* configuration (the same at every read) and the pool is created and
\* assigned before it is tested
ConnectDb(d) ==
  /\ dpc[d] = "idle"
  /\ Started(d)
  /\ IF pool # NoPool
     THEN /\ dpc' = [dpc EXCEPT ![d] = "resolved"]
          /\ UNCHANGED <<pool, created, own, connectionString>>
     ELSE \E cs \in (IF connectionString = "unread" THEN {"set", "unset"}
                     ELSE {connectionString}) :
            /\ connectionString' = cs
            /\ IF cs = "unset"
               THEN /\ dpc' = [dpc EXCEPT ![d] = "rejected"]
                    /\ UNCHANGED <<pool, created, own>>
               ELSE /\ created' = created + 1
                    /\ pool' = created + 1
                    /\ own' = [own EXCEPT ![d] = created + 1]
                    /\ dpc' = [dpc EXCEPT ![d] = "connecting"]
  /\ UNCHANGED <<tested, cpc>>
  /\ UNCHANGED <<gvars, tvars, cvars, evars, svars, rvars>>

\* await pool.connect() settles
PoolConnectSettles(d) ==
  /\ dpc[d] = "connecting"
  /\ \E connected \in BOOLEAN :
       dpc' = [dpc EXCEPT ![d] = IF connected THEN "querying" ELSE "rejected"]
  /\ UNCHANGED <<pool, tested, created, own, connectionString, cpc>>
  /\ UNCHANGED <<gvars, tvars, cvars, evars, svars, rvars>>

\* await client.query('SELECT version()') settles: on success the client is
\* released, pool.on is called on what the module variable holds by then
\* (a TypeError when it is null) and that is returned; the catch block
\* rethrows and leaves the pool variable as it is
QuerySettles(d) ==
  /\ dpc[d] = "querying"
  /\ \E answered \in BOOLEAN :
       IF answered
       THEN /\ tested' = tested \cup {own[d]}
            /\ dpc' = [dpc EXCEPT ![d] =
                         IF pool = NoPool THEN "rejected" ELSE "resolved"]
       ELSE /\ dpc' = [dpc EXCEPT ![d] = "rejected"]
            /\ UNCHANGED tested
  /\ UNCHANGED <<pool, created, own, connectionString, cpc>>
  /\ UNCHANGED <<gvars, tvars, cvars, evars, svars, rvars>>

\* closeDb up to its await: without a pool it returns
CloseDb(k) ==
  /\ cpc[k] = "idle"
  /\ cpc' = [cpc EXCEPT ![k] = IF pool = NoPool THEN "done" ELSE "ending"]
  /\ UNCHANGED <<pool, tested, dpc, created, own, connectionString>>
  /\ UNCHANGED <<gvars, tvars, cvars, evars, svars, rvars>>

\* await pool.end() settles: on success the module variable is set to null
PoolEndSettles(k) ==
  /\ cpc[k] = "ending"
  /\ \E ended \in BOOLEAN :
       IF ended
       THEN /\ pool' = NoPool
            /\ cpc' = [cpc EXCEPT ![k] = "done"]
       ELSE /\ cpc' = [cpc EXCEPT ![k] = "failed"]
            /\ UNCHANGED pool
  /\ UNCHANGED <<tested, dpc, created, own, connectionString>>
  /\ UNCHANGED <<gvars, tvars, cvars, evars, svars, rvars>>

(* ----------------------------- /prepare-rag ---------------------------- *)
\* Position of a POST /prepare-rag request:
\*   idle         not yet received
\*   unavailable  answered 503 by ensureAgentsReady
\*   badRequest   answered 400, a required field is missing
\*   preparing    at await agents.ragPrep.prepareChapter(...)
\*   done         answered with the result
\*   failed       answered 500

\* requests are numbered in their order of arrival
Received(r) == IF r = 1 THEN TRUE ELSE rpc[r - 1] # "idle"

\* setupAgents: the agents are created, with the autoUpload option they
\* are created with
SetupAgents ==
  /\ ~agentsReady
  /\ agentsReady' = TRUE
  /\ \E option \in BOOLEAN :
       /\ defaultAutoUpload' = option
       /\ autoUpload' = option
  /\ UNCHANGED <<rpc, originalAutoUpload, uploadToDb, ranWith>>
  /\ UNCHANGED <<gvars, tvars, cvars, evars, svars, dvars>>

\* the body values of uploadToDb: absent, false, true
UploadToDbValues == {"undefined", "false", "true"}

\* uploadToDb ?? false
OrFalse(v) == v = "true"

\* the handler of POST /prepare-rag up to its await: ensureAgentsReady, the
\* validation, the save of autoUpload and its assignment, and the call of
\* prepareChapter, whose synchronous part may or may not read the option
PrepareRag(r) ==
  /\ rpc[r] = "idle"
  /\ Received(r)
  /\ IF ~agentsReady
     THEN /\ rpc' = [rpc EXCEPT ![r] = "unavailable"]
          /\ UNCHANGED <<autoUpload, originalAutoUpload, uploadToDb, ranWith>>
     ELSE \E valid \in BOOLEAN, v \in UploadToDbValues, reads \in BOOLEAN :
            IF ~valid
            THEN /\ rpc' = [rpc EXCEPT ![r] = "badRequest"]
                 /\ UNCHANGED <<autoUpload, originalAutoUpload, uploadToDb,
                                ranWith>>
            ELSE /\ originalAutoUpload' =
                      [originalAutoUpload EXCEPT ![r] = autoUpload]
                 /\ autoUpload' = OrFalse(v)
                 /\ uploadToDb' = [uploadToDb EXCEPT ![r] = OrFalse(v)]
                 /\ ranWith' = [ranWith EXCEPT ![r] =
                                  IF reads THEN {OrFalse(v)} ELSE {}]
                 /\ rpc' = [rpc EXCEPT ![r] = "preparing"]
  /\ UNCHANGED <<agentsReady, defaultAutoUpload>>
  /\ UNCHANGED <<gvars, tvars, cvars, evars, svars, dvars>>

\* prepareChapter, after one of its own awaits, reads options.autoUpload
\* (the agent is not among the sources: when it reads the option is left
\* open, at the call or at any later moment before it settles)
PrepareChapterReads(r) ==
  /\ rpc[r] = "preparing"
  /\ ranWith[r] = {}
  /\ ranWith' = [ranWith EXCEPT ![r] = {autoUpload}]
  /\ UNCHANGED <<agentsReady, defaultAutoUpload, autoUpload, rpc,
                 originalAutoUpload, uploadToDb>>
  /\ UNCHANGED <<gvars, tvars, cvars, evars, svars, dvars>>

\* prepareChapter settles: the finally block restores the saved value, and
\* the result or the 500 is sent
PrepareChapterSettles(r) ==
  /\ rpc[r] = "preparing"
  /\ autoUpload' = originalAutoUpload[r]
  /\ \E resolved \in BOOLEAN :
       rpc' = [rpc EXCEPT ![r] = IF resolved THEN "done" ELSE "failed"]
  /\ UNCHANGED <<agentsReady, defaultAutoUpload, originalAutoUpload,
                 uploadToDb, ranWith>>
  /\ UNCHANGED <<gvars, tvars, cvars, evars, svars, dvars>>

(* --------------------------- specifications ---------------------------- *)
\* the governor and its callers, with the clock
Next ==
  \/ Tick
  \/ \E c \in Callers : CallOpenRouter(c)
  \/ \E c \in Callers : TimerFire(c)
  \/ \E c \in Callers : IssueCall(c)

Spec == Init /\ [][Next]_vars

\* the governor under the scheduling of the event loop: the clock advances,
\* and while timers are due or continuations of resolved awaits are
\* pending, one of them runs
SpecFair ==
  /\ Init
  /\ [][Next]_vars
  /\ WF_vars(Tick)
  /\ WF_vars(\E c \in Callers : TimerFire(c))
  /\ WF_vars(\E c \in Callers : IssueCall(c))

\* every way a request of the backend reaches the provider, within one
\* clock tick
NextRoutes ==
  \/ \E c \in Callers : CallOpenRouter(c)
  \/ \E c \in Callers : IssueCall(c)
  \/ \E c \in Callers : GeminiTranslateRoute(c)
  \/ \E c \in Callers : PersonalizeRoute(c)
  \/ \E c \in Callers : TranslateRoute(c)
  \/ \E c \in Callers : ChatRoute(c)
  \/ \E c \in Callers : ChatRouteCompletion(c)

SpecRoutes == Init /\ [][NextRoutes]_vars

\* the translateText calls of one browser page
NextTranslate ==
  \/ \E k \in Calls : TranslateText(k)
  \/ \E k \in Calls : SlotGranted(k)
  \/ \E k \in Calls, o \in Outcomes : Respond(k, o)
  \/ \E k \in Calls : BackoffFire(k)

SpecTranslate == Init /\ [][NextTranslate]_vars

\* translateText under the scheduling of the event loop: an awaited
\* waitForSlot resolves, a fetch settles, a backoff timer fires
SpecTranslateFair ==
  /\ Init
  /\ [][NextTranslate]_vars
  /\ \A k \in Calls : WF_vars(SlotGranted(k))
  /\ \A k \in Calls : WF_vars(\E o \in Outcomes : Respond(k, o))
  /\ \A k \in Calls : WF_vars(BackoffFire(k))

\* one request to one of the entry points, after the configuration is read
NextCors ==
  \/ LoadConfig
  \/ Handler
  \/ App
  \/ AppOriginArray
  \/ StandaloneCorsMiddleware
  \/ Simple

SpecCors == Init /\ [][NextCors]_vars

\* one failing provider call
NextErrors ==
  \/ CompletionFails
  \/ EmbeddingsFails

SpecErrors == Init /\ [][NextErrors]_vars

\* invocations of the serverless handler, overlapping or not
NextInit ==
  \/ \E i \in Invocations : InitOnce(i)
  \/ \E i \in Invocations : ConnectDbSettles(i)
  \/ \E i \in Invocations : QdrantSettles(i)

SpecInit == Init /\ [][NextInit]_vars

\* calls of connectDb, overlapping or not
NextDb ==
  \/ \E d \in DbCalls : ConnectDb(d)
  \/ \E d \in DbCalls : PoolConnectSettles(d)
  \/ \E d \in DbCalls : QuerySettles(d)
  \/ \E k \in Closes : CloseDb(k)
  \/ \E k \in Closes : PoolEndSettles(k)

SpecDb == Init /\ [][NextDb]_vars

\* POST /prepare-rag requests, overlapping or not
NextRag ==
  \/ SetupAgents
  \/ \E r \in RagRequests : PrepareRag(r)
  \/ \E r \in RagRequests : PrepareChapterReads(r)
  \/ \E r \in RagRequests : PrepareChapterSettles(r)

SpecRag == Init /\ [][NextRag]_vars

(* ------------------------------ claims --------------------------------- *)
Admitted(c) == obs[c].admitAt # NoTime

Delayed(c) == wakeAt[c] # NoTime

\* the callers admitted at an instant of the interval [t, t + timeWindow)
AdmittedWithin(t) ==
  {d \in Callers : Admitted(d) /\ obs[d].admitAt >= t
                   /\ obs[d].admitAt < t + timeWindow}

\* C1: no interval of length timeWindow holds the admission instants of
\* more than maxRequests calls.
RateNeverExceeded ==
  \A c \in Callers :
    Admitted(c) => Cardinality(AdmittedWithin(obs[c].admitAt)) <= maxRequests

\* C2: the timestamp list never holds more than maxRequests entries.
RequestsBounded == Len(requests) <= maxRequests

\* C2 witness: a delayed caller has been admitted into a full list
RequestsBoundedWitness ==
  /\ Len(requests) = maxRequests
  /\ \E c \in Callers : Delayed(c) /\ pc[c] = "admitted"

\* C3: while a caller is between its check and the recording of its own
\* timestamp, the timestamp list is not changed by anyone else.
AdmissionAtomic ==
  [][\A c \in Callers :
       (pc[c] = "waiting" /\ pc'[c] = "waiting") => requests' = requests]_vars

\* C4: a caller that finds the window full is suspended for
\* timeWindow - (now - oldest) + 1000 ms and is admitted only after that, so
\* no earlier than timeWindow after the oldest recorded call.
DelayedAdmission ==
  \A c \in Callers :
    /\ (obs[c].count # NoTime /\ obs[c].count >= maxRequests) => Delayed(c)
    /\ Delayed(c) =>
         /\ wakeAt[c] - obs[c].checkAt =
              timeWindow - (obs[c].checkAt - obs[c].oldest) + safetyMargin
         /\ pc[c] = "waiting" => ~Admitted(c)
         /\ Admitted(c) =>
              /\ obs[c].admitAt >= wakeAt[c]
              /\ obs[c].admitAt - obs[c].oldest >= timeWindow

\* C4 witness: a caller that found the window full has been admitted
DelayedAdmissionWitness ==
  \E c \in Callers :
    /\ obs[c].count = maxRequests
    /\ Delayed(c)
    /\ Admitted(c)
    /\ obs[c].checkAt > obs[c].oldest

\* C5: a caller whose check finds fewer than maxRequests unexpired
\* timestamps is recorded and returns at once, with no timer; a caller is
\* delayed only when maxRequests calls were admitted within the window that
\* ends at its check.
NoDelayUnderLimit ==
  \A c \in Callers :
    /\ (obs[c].count # NoTime /\ obs[c].count < maxRequests) =>
         /\ ~Delayed(c)
         /\ obs[c].admitAt = obs[c].checkAt
         /\ pc[c] \in {"admitted", "posted"}
    /\ Delayed(c) =>
         Cardinality({d \in Callers :
                        /\ Admitted(d)
                        /\ obs[d].admitAt <= obs[c].checkAt
                        /\ obs[c].checkAt - obs[d].admitAt < timeWindow})
           >= maxRequests

\* C5 witness: a caller took the last free slot of a window without waiting
NoDelayUnderLimitWitness ==
  \E c \in Callers :
    /\ obs[c].count = maxRequests - 1
    /\ obs[c].admitAt = obs[c].checkAt
    /\ ~Delayed(c)
    /\ \E d \in Callers : pc[d] = "waiting"

BackoffBlocksOnlyTheCall ==
  \A k, j \in Calls :
    tpc[k] = "backoff" =>
      /\ (tpc[j] = "idle" /\ Called(j)) => ENABLED TranslateText(j)
      /\ tpc[j] = "slot" => ENABLED SlotGranted(j)
      /\ tpc[j] = "fetching" => \A o \in Outcomes : ENABLED Respond(j, o)

\* C7: every POST to the provider is preceded, in the same request, by a
\* completed checkLimit admission.
EveryPostGoverned == \A p \in posts : p.governed

\* C8: completions and embeddings draw on one list: an immediate admission
\* of either kind lowers the remaining budget by one, every admission of
\* either kind is the newest entry of the list, and the list never holds
\* more than maxRequests entries of both kinds together.
SharedBudget ==
  [][\A c \in Callers :
       (pc[c] # "admitted" /\ pc'[c] = "admitted") =>
          /\ entry'[c] \in GovernedEntries
          /\ requests' # << >>
          /\ requests'[Len(requests')] = now
          /\ Len(requests') <= maxRequests
          /\ pc[c] = "idle" =>
               Remaining(requests', now) = Remaining(requests, now) - 1]_vars

\* C8 witness: the list holds one embedding and one completion admission
\* and nothing is left of the budget
SharedBudgetWitness ==
  \E c, d \in Callers :
    /\ entry[c] = "embeddings" /\ entry[d] = "completion"
    /\ Admitted(c) /\ Admitted(d)
    /\ requests = <<obs[c].admitAt, obs[d].admitAt>>
    /\ Remaining(requests, now) = 0

\* C9: when every response signals quota exceeded, a call started with a
\* budget of 2 retries exactly twice, each time after the quota backoff, and
\* then surfaces a rate-limit-exhausted error; a call started with a budget
\* of 0 surfaces that error after its first attempt, without any delay.
QuotaExhaustedSurfaced ==
  \A k \in Calls :
    (tpc[k] = "returned" /\ fetches[k] > 0 /\ quotas[k] = fetches[k]) =>
       /\ budget[k] = 2 =>
            /\ fetches[k] = 3
            /\ waited[k] = 2 * QuotaBackoff
            /\ result[k] = "rateLimitExhausted"
       /\ budget[k] = 0 =>
            /\ fetches[k] = 1
            /\ waited[k] = 0
            /\ result[k] = "rateLimitExhausted"

\* C10: a failure with HTTP 400 and a message without quota or rate limit
\* is never retried: the call has issued exactly one request, has waited
\* for no backoff and is over.
BadRequestNotRetried ==
  \A k \in Calls :
    last[k] = "http400" =>
       /\ tpc[k] = "returned"
       /\ fetches[k] = 1
       /\ waited[k] = 0

\* C11: with the default retry budget, a call whose every attempt failed
\* transiently (here: every response signalled quota exceeded) has made 3
\* provider attempts in total when it gives up.
DefaultBudgetThreeAttempts ==
  \A k \in Calls :
    (tpc[k] = "returned" /\ budget[k] = DefaultRetries
       /\ fetches[k] > 0 /\ quotas[k] = fetches[k]) =>
       fetches[k] = 3

(* ---------------------------- CORS claims ------------------------------ *)
\* the response echoes the request's origin in Access-Control-Allow-Origin
Granted == req.origin # Absent /\ res.headers.allowOrigin = req.origin

\* the number of wildcard markers of an allow-list entry
Wildcards(p) == Cardinality({i \in 1..Len(p) : p[i] = "*"})

\* the allow-list entries the authorizers of entry point e match against
EntriesOf(e) ==
  IF e = "handler"
  THEN handlerAllowedOrigins \cup {handlerPattern} \cup allowedOrigins
  ELSE allowedOrigins

\* o is p with its one wildcard marker replaced by n characters, none of
\* them a dot
FillsWildcard(p, o, n) ==
  IF Wildcards(p) # 1 \/ Len(o) # Len(p) - 1 + n THEN FALSE
  ELSE LET i == CHOOSE j \in 1..Len(p) : p[j] = "*"
       IN /\ \A j \in 1..(i - 1) : o[j] = p[j]
          /\ \A j \in i..(i + n - 1) : o[j] # "."
          /\ \A j \in (i + 1)..Len(p) : o[j + n - 1] = p[j]

\* C12: in the matchers of the CORS configuration module, the standalone
\* corsMiddleware and the serverless handler, an origin is allowed through
\* a one-wildcard pattern only if it is the pattern with the wildcard
\* replaced by a string without dot, every other character literal.
WildcardWithinOneLabel ==
  (/\ entryPoint \in {"handler", "app", "standalone"}
   /\ Granted
   /\ \A p \in EntriesOf(entryPoint) : Wildcards(p) <= 1) =>
     \E p \in EntriesOf(entryPoint) :
       IF p = req.origin THEN TRUE
       ELSE \E n \in 0..MaxOriginLen : FillsWildcard(p, req.origin, n)

\* C13: the wildcard stands for one or more characters: an origin that is a
\* pattern with its wildcard marker deleted, that is not listed literally
\* and that no pattern covers with a non-empty label, is not allowed.
WildcardNeverEmpty ==
  \A p \in EntriesOf(entryPoint) :
    (/\ entryPoint \in {"handler", "app", "standalone"}
     /\ req.origin # Absent
     /\ FillsWildcard(p, req.origin, 0)
     /\ req.origin \notin EntriesOf(entryPoint)
     /\ \A q \in EntriesOf(entryPoint), n \in 1..MaxOriginLen :
          ~FillsWildcard(q, req.origin, n)) =>
       ~Granted

\* C14: against an allow-list without wildcard pattern, a present origin is
\* allowed if and only if it is string-equal to one entry; the serverless
\* handler allows an origin that its one pattern does not cover if and only
\* if it is string-equal to an entry of its list or, past the preflight
\* answer, of the configured list.
ExactMatchOnly ==
  (req.origin # Absent /\ \A p \in allowedOrigins : Wildcards(p) = 0) =>
     /\ entryPoint \in {"app", "originArray", "standalone"} =>
          (Granted <=> req.origin \in allowedOrigins)
     /\ (/\ entryPoint = "handler"
         /\ \A n \in 0..MaxOriginLen :
              ~FillsWildcard(handlerPattern, req.origin, n)) =>
          (Granted <=>
             IF req.origin \in handlerAllowedOrigins THEN TRUE
             ELSE IF req.method = "OPTIONS" THEN FALSE
             ELSE req.origin \in allowedOrigins)

\* C14 witness: the Express app has passed on a request whose origin is an
\* entry of a list without wildcard, with that origin echoed
ExactMatchOnlyWitness ==
  /\ entryPoint = "app"
  /\ \A p \in allowedOrigins : Wildcards(p) = 0
  /\ req.origin \in allowedOrigins
  /\ Granted
  /\ res.outcome = "next"

\* the origin test of entry point e accepts origin o; simple.js has no
\* allow-list, every origin is accepted
Decision(e, o) ==
  IF e = "handler" THEN handlerIsAllowed(o) \/ isOriginAllowed(o)
  ELSE IF e = "app" THEN isOriginAllowed(o)
  ELSE IF e = "originArray" THEN o \in allowedOrigins
  ELSE IF e = "standalone" THEN standaloneIsAllowed(o)
  ELSE TRUE

\* C15: at every entry point, a response with
\* Access-Control-Allow-Credentials: true carries the request's own origin
\* in Access-Control-Allow-Origin, never the literal *, and that origin is
\* one the entry point allows.
CredentialsOnlyWithOwnOrigin ==
  res.headers.credentials =>
     /\ req.origin # Absent
     /\ res.headers.allowOrigin = req.origin
     /\ res.headers.allowOrigin # Star
     /\ Decision(entryPoint, req.origin)

\* C16: at every entry point, a request whose present origin the origin
\* test rejects is not passed on towards the route handlers.
RejectedNeverDispatched ==
  (entryPoint # "none" /\ req.origin # Absent
     /\ ~Decision(entryPoint, req.origin)) =>
     res.outcome # "next"

\* C17: the response to a request whose present origin the origin test
\* rejects carries none of the six Access-Control-* headers.
NoHeadersOnRejection ==
  (entryPoint # "none" /\ req.origin # Absent
     /\ ~Decision(entryPoint, req.origin)) =>
     res.headers = NoHeaders

\* C18: a request without Origin header is passed on towards the route
\* handlers (a preflight is answered), and its response carries no
\* Access-Control-* header.
AbsentOriginProceedsBare ==
  (entryPoint \in {"handler", "app", "originArray", "standalone"}
     /\ req.origin = Absent) =>
     /\ res.outcome = (IF req.method = "OPTIONS" THEN "ended" ELSE "next")
     /\ res.headers = NoHeaders

\* C19: every OPTIONS request is answered by the authorizer with status
\* 204 and is not passed on, whether its origin is allowed or rejected.
PreflightEndsWith204 ==
  (entryPoint # "none" /\ req.method = "OPTIONS") =>
     /\ res.outcome = "ended"
     /\ res.status = 204

\* C20: an allow-list with an entry of more than one wildcard marker is
\* never in force: loading it fails.
MultiWildcardRejectedAtLoad ==
  loaded => \A p \in allowedOrigins : Wildcards(p) <= 1

(* ------------------------- provider error claims ----------------------- *)
\* the provider's message names a quota or a rate limit, in any case
MentionsQuotaOrRateLimit(msg) ==
  \/ \E i \in 1..Len(msg) : msg[i] \in {"quota", "Quota"}
  \/ \E i \in 1..(Len(msg) - 1) : msg[i] = "rate" /\ msg[i + 1] = "limit"

\* detail ends with the provider's message
EndsWith(detail, msg) ==
  /\ Len(detail) >= Len(msg)
  /\ SubSeq(detail, Len(detail) - Len(msg) + 1, Len(detail)) = msg

\* C21: every failure of the provider call gives exactly one of three
\* errors: status 429 when the provider's message names a quota or a rate
\* limit, the provider's own status and message for any other provider
\* response, status 503 when no response was received; a quota error and a
\* connectivity error differ in status and in message.
FailureClassified ==
  failure.kind # "none" =>
    LET answered == failure.kind \in {"response", "format"}
        quota == failure.kind = "response"
                   /\ MentionsQuotaOrRateLimit(failure.message)
    IN /\ quota => thrown.status = 429
       /\ (answered /\ ~quota) =>
            /\ thrown.status = failure.status
            /\ EndsWith(thrown.detail, failure.message)
       /\ ~answered => thrown.status = 503
       /\ thrown.name = "quotaError" =>
            thrown.detail # CatchBlock([failure EXCEPT !.kind = "request"]).detail

(* ---------------------- service initialisation claims ------------------ *)
\* C22: initializeServices is entered at most once, also when invocations
\* overlap, so the auth router, the catch-all 404 route and the error
\* handler are each mounted at most once.
InitializedOnce ==
  /\ entered <= 1
  /\ mounted.auth <= 1
  /\ mounted.notFound <= 1
  /\ mounted.errorHandler <= 1

(* ----------------------- governor claims, continued -------------------- *)
\* number of entries of the list s that equal t
Count(s, t) == Cardinality({i \in 1..Len(s) : s[i] = t})

\* C23: no timestamp younger than timeWindow is ever removed from the
\* list; the entry a delayed caller shifts out on waking is the one its
\* wait was computed from, and it has expired by then.
OnlyExpiredRemoved ==
  [][/\ \A t \in 0..MaxTime :
          (now - t < timeWindow) => Count(requests', t) >= Count(requests, t)
     /\ \A c \in Callers :
          (pc[c] = "waiting" /\ pc'[c] = "admitted" /\ requests # << >>) =>
             /\ requests[1] = obs[c].oldest
             /\ now - requests[1] >= timeWindow]_vars

\* C24: no caller starves: with timers that fire, every caller that
\* starts a wait is admitted; a caller waits at most once, and for at most
\* timeWindow + 1000 ms.
NoStarvation ==
  /\ <>[](\A c \in Callers :
            (Delayed(c) /\ wakeAt[c] <= MaxTime) => Admitted(c))
  /\ [](\A c \in Callers :
          Delayed(c) =>
            /\ wakeAt[c] - obs[c].checkAt <= timeWindow + safetyMargin
            /\ wakeAt[c] - obs[c].checkAt >= 0)
  /\ [][\A c \in Callers :
          /\ (pc[c] = "waiting" /\ pc'[c] # "waiting") => pc'[c] = "admitted"
          /\ pc[c] # "idle" => wakeAt'[c] = wakeAt[c]]_vars

\* C24 witness: a caller that waited the longest possible wait has been
\* admitted
NoStarvationWitness ==
  \E c \in Callers :
    /\ Delayed(c)
    /\ wakeAt[c] - obs[c].checkAt = timeWindow + safetyMargin
    /\ Admitted(c)

(* --------------------- translateText claims, continued ----------------- *)
\* C25: translateText terminates: quota failures and other failures draw
\* on one counter, which decreases by one on every retry and never goes
\* below zero, so a call started with budget r issues at most r + 1
\* fetches and then returns.
TranslateTerminates ==
  /\ <>[](\A k \in Calls : tpc[k] \in {"idle", "returned"})
  /\ [](\A k \in Calls :
          /\ retries[k] >= 0
          /\ fetches[k] <= budget[k] + 1
          /\ tpc[k] \in {"fetching", "backoff"} =>
               retries[k] + fetches[k] = budget[k] + 1)
  /\ [][\A k \in Calls :
          /\ (tpc[k] = "backoff" /\ tpc'[k] # "backoff") =>
               retries'[k] = retries[k] - 1
          /\ (tpc[k] # "idle" /\ fetches'[k] # fetches[k]) =>
               retries[k] < budget[k] - (fetches[k] - 1)]_vars

\* C25 witness: a call used up its whole budget on quota failures and
\* other failures alike, and returned
TranslateTerminatesWitness ==
  \E k \in Calls :
    /\ tpc[k] = "returned"
    /\ budget[k] = DefaultRetries
    /\ fetches[k] = budget[k] + 1
    /\ quotas[k] > 0
    /\ quotas[k] < fetches[k]

\* C26: every retry goes back through admission: after a failed fetch
\* the call awaits its backoff (16 s after a quota failure, 2 s after any
\* other failure), then awaits waitForSlot anew, and only then fetches; no
\* fetch is issued without an admission since the previous fetch.
RetryThroughAdmission ==
  /\ [](\A k \in Calls : slots[k] = fetches[k])
  /\ [][\A k \in Calls :
          /\ (tpc[k] = "fetching" /\ tpc'[k] = "backoff") =>
               waited'[k] - waited[k] =
                 (IF last'[k] = "quota" THEN QuotaBackoff ELSE ErrorBackoff)
          /\ (tpc[k] = "backoff" /\ tpc'[k] # "backoff") =>
               /\ tpc'[k] = "slot"
               /\ fetches'[k] = fetches[k]
          /\ fetches'[k] # fetches[k] =>
               /\ tpc[k] = "slot"
               /\ fetches'[k] = fetches[k] + 1
               /\ slots'[k] = slots[k] + 1]_vars

\* C26 witness: a call fetches for the third time, after one quota backoff
\* and one error backoff, each followed by an admission
RetryThroughAdmissionWitness ==
  \E k \in Calls :
    /\ tpc[k] = "fetching"
    /\ fetches[k] = 3
    /\ slots[k] = 3
    /\ quotas[k] = 1
    /\ waited[k] = QuotaBackoff + ErrorBackoff

(* -------------------------- CORS claims, continued --------------------- *)
\* C27: with the lists as they are written in the code, the inline check
\* of the serverless handler, isOriginAllowed and the standalone
\* corsMiddleware decide alike for every origin, so no response carries
\* CORS headers of one layer for an origin another layer refuses.
LayersAgree ==
  (entryPoint # "none" /\ allowedOrigins = configAllowedOrigins) =>
    /\ handlerIsAllowed(req.origin) = isOriginAllowed(req.origin)
    /\ isOriginAllowed(req.origin) = standaloneIsAllowed(req.origin)
    /\ (entryPoint = "handler" /\ res.headers.allowOrigin # NoValue) =>
         handlerIsAllowed(req.origin)

PoolOnlyAfterTest ==
  [][\A d \in DbCalls :
       /\ (dpc[d] # "resolved" /\ dpc'[d] = "resolved") => pool' \in tested'
       /\ (dpc[d] = "idle" /\ dpc'[d] # "idle" /\ pool' \notin tested) =>
            dpc'[d] \in {"connecting", "rejected"}]_vars

\* C30: a call rejected before admission, because the API key or the
\* embedding model is not configured, leaves the governor as it was: no
\* timestamp is appended or removed, no wait is scheduled, and no HTTP
\* request is issued for it, then or later.
RejectedLeavesNoTrace ==
  /\ [][\A c \in Callers :
          (pc[c] = "idle" /\ pc'[c] = "threw") =>
             /\ requests' = requests
             /\ wakeAt' = wakeAt
             /\ obs' = obs
             /\ posts' = posts]_vars
  /\ [](\A c \in Callers :
          pc[c] = "threw" =>
             /\ ~Delayed(c)
             /\ ~Admitted(c)
             /\ \A p \in posts : p.by # c)

\* C30 witness: with the key configured, an embeddings call without model
\* has been rejected while the list holds an expired entry and another
\* caller sleeps
RejectedLeavesNoTraceWitness ==
  \E c, d \in Callers :
    /\ apiKey
    /\ pc[c] = "threw"
    /\ entry[c] = "embeddings"
    /\ requests # << >>
    /\ now - requests[1] >= timeWindow
    /\ pc[d] = "waiting"
    /\ wakeAt[d] >= now
====
